---- MODULE Spec2Model ----
(***************************************************************************)
(* Model of pazel/parse_imports.py: get_imports (the import extractor),    *)
(* infer_import_type (the import resolver) and _in_public_interface (the   *)
(* public-interface checker).                                              *)
(*                                                                         *)
(* Python strings are sequences of one-character strings, so that          *)
(* concatenation, replace, slicing and find are computed as the code       *)
(* computes them.  An optional value (x or None) is a record               *)
(* [isNone, s].                                                            *)
(***************************************************************************)
EXTENDS Integers, Sequences, FiniteSets, TLC

VARIABLES
    \* ---- infer_import_type ----
    pc,                \* "loop" | "done" | "raised"
    all_imports,       \* the list of (base, unknown) pairs
    idx,               \* 1-based position of the for loop of line 65
    packages,          \* the list packages (line 62)
    modules,           \* the list modules (line 61)
    result,            \* the returned (set(packages), set(modules)), line 135
    calls,             \* inference_rule.holds invocations, in order
    script_dir,        \* argument script_dir
    contains_pre_installed_packages,
    custom_rules,      \* ordered sequence of rule names
    files,             \* the filesystem: the set of paths of regular files
    init_file,         \* what open()/read() gives for <root>/f/__init__.py
    \* ---- get_imports ----
    gpc,               \* "loop" | "done"
    body,              \* ast.parse(script_source).body
    gidx,              \* position of the for loop of line 29
    gpackages,         \* the list packages (line 25)
    from_imports       \* the list from_imports (line 26)

vars == <<pc, all_imports, idx, packages, modules, result, calls, script_dir,
          contains_pre_installed_packages, custom_rules, files, init_file,
          gpc, body, gidx, gpackages, from_imports>>

resolverVars == <<pc, all_imports, idx, packages, modules, result, calls, script_dir,
                  contains_pre_installed_packages, custom_rules, files, init_file>>

extractorVars == <<gpc, body, gidx, gpackages, from_imports>>

-----------------------------------------------------------------------------
(* Bounds *)

MaxImports == 2

MaxFiles == 2

MaxStmts == 2

-----------------------------------------------------------------------------
(* Python values *)

None == [isNone |-> TRUE, s |-> <<>>]

Some(s) == [isNone |-> FALSE, s |-> s]

\* '%s' % x
Format(x) == IF x.isNone THEN <<"N", "o", "n", "e">> ELSE x.s

\* str.replace(old, new) for one-character old and new
Replace(s, old, new) == [k \in 1..Len(s) |-> IF s[k] = old THEN new ELSE s[k]]

\* str.endswith / str.startswith
EndsWith(s, suf) ==
    Len(s) >= Len(suf) /\ SubSeq(s, Len(s) - Len(suf) + 1, Len(s)) = suf

StartsWith(s, pre) == Len(s) >= Len(pre) /\ SubSeq(s, 1, Len(pre)) = pre

\* str.find(sub): the lowest 0-based index where sub occurs, or -1
Find(s, sub) ==
    LET hits == {k \in 0..(Len(s) - Len(sub)) : SubSeq(s, k + 1, k + Len(sub)) = sub}
    IN  IF hits = {} THEN -1 ELSE CHOOSE k \in hits : \A j \in hits : k <= j

\* the truth value Python gives an int
Truthy(n) == n # 0

\* os.path.join(a, b)
Join(a, b) ==
    IF StartsWith(b, <<"/">>) THEN b
    ELSE IF a = <<>> \/ EndsWith(a, <<"/">>) THEN a \o b
    ELSE a \o <<"/">> \o b

\* str.split('/') without the empty components
RECURSIVE Components(_)
Components(p) ==
    IF p = <<>> THEN <<>>
    ELSE LET cut == Find(p, <<"/">>)
         IN  IF cut = -1 THEN <<p>>
             ELSE IF cut = 0 THEN Components(Tail(p))
             ELSE <<SubSeq(p, 1, cut)>> \o Components(SubSeq(p, cut + 2, Len(p)))

RECURSIVE JoinAll(_)
JoinAll(cs) ==
    IF cs = <<>> THEN <<>>
    ELSE IF Len(cs) = 1 THEN cs[1]
    ELSE cs[1] \o <<"/">> \o JoinAll(Tail(cs))

RECURSIVE CommonLen(_, _)
CommonLen(a, b) ==
    IF a = <<>> \/ b = <<>> \/ a[1] # b[1] THEN 0 ELSE 1 + CommonLen(Tail(a), Tail(b))

\* os.path.relpath(path, start) for absolute, normalised arguments
RelPath(path, start) ==
    LET sl == Components(start)
        pl == Components(path)
        c  == CommonLen(sl, pl)
        rel == [k \in 1..(Len(sl) - c) |-> <<".", ".">>] \o SubSeq(pl, c + 1, Len(pl))
    IN  IF rel = <<>> THEN <<".">> ELSE JoinAll(rel)

-----------------------------------------------------------------------------
(* Names and paths of the inputs *)

project_root == <<"/", "r">>

sInit == <<"_", "_", "i", "n", "i", "t", "_", "_">>

sAll == <<"_", "_", "a", "l", "l", "_", "_">>

sPy == <<".", "p", "y">>

sNumpy == <<"n", "u", "m", "p", "y">>

Pairs == {<<<<"f">>, None>>, <<<<"f">>, Some(<<"t">>)>>, <<<<"n">>, None>>}

ScriptDirs == {<<"/", "r", "/", "s">>, <<"/", "q">>}

InitPath == <<"/", "r", "/", "f", "/", "_", "_", "i", "n", "i", "t", "_", "_", ".", "p", "y">>

CandidateFiles(sd) ==
    { <<"/", "r", "/", "f", ".", "p", "y">>,
      <<"/", "r", "/", "f", "/", "t", ".", "p", "y">>,
      <<"/", "r", "/", "f", "/", "t", "/", "x", ".", "p", "y">>,
      <<"/", "r", "/", "f", "/", "t", "/", "d">>,
      InitPath,
      sd \o <<"/", "f", ".", "p", "y">>,
      <<"/", "r", "/", "f", "/", "N", "o", "n", "e", ".", "p", "y">>,
      <<"/", "r", "/", "n", ".", "p", "y">> }

-----------------------------------------------------------------------------
(* The filesystem *)

\* os.path.isfile
IsFile(p) == p \in files

\* os.path.isdir: a directory is a proper ancestor of some file
IsDir(p) == \E f \in files : StartsWith(f, p \o <<"/">>)

\* os.path.exists
Exists(p) == IsFile(p) \/ IsDir(p)

\* pazel.helpers.contains_python_file: some source file at or below the directory
contains_python_file(dir) ==
    \E f \in files : StartsWith(f, dir \o <<"/">>) /\ EndsWith(f, sPy)

\* pazel.helpers.is_installed against the static list of pre-installed modules
InstalledModules == {<<"n">>}

is_installed(base, unknown, flag) == flag /\ base \in InstalledModules

-----------------------------------------------------------------------------
(* Entry-point files: the text and what ast.parse gives for it *)

Name(id) == [kind |-> "Name", id |-> id]

Attribute(id) == [kind |-> "Attribute", id |-> id]

Str(s) == [kind |-> "Str", s |-> s]

List(elts) == [kind |-> "List", elts |-> elts]

Other(kind) == [kind |-> kind, elts |-> <<>>]

Assign(targets, value) == [kind |-> "Assign", targets |-> targets, value |-> value]

SourceFile(text, parses, ast) ==
    [readable |-> TRUE, text |-> text, parses |-> parses, body |-> ast]

Unreadable == [readable |-> FALSE, text |-> <<>>, parses |-> FALSE, body |-> <<>>]

\* "t=1"
SrcDefinesT == SourceFile(<<"t", "=", "1">>, TRUE,
                          <<Assign(<<Name(<<"t">>)>>, Other("Num"))>>)

\* "__all__=['ut']"
SrcAllOther == SourceFile(sAll \o <<"=", "[", "'", "u", "t", "'", "]">>, TRUE,
                          <<Assign(<<Name(sAll)>>, List(<<Str(<<"u", "t">>)>>))>>)

\* "__all__=['t']"
SrcAllT == SourceFile(sAll \o <<"=", "[", "'", "t", "'", "]">>, TRUE,
                      <<Assign(<<Name(sAll)>>, List(<<Str(<<"t">>)>>))>>)

\* "a.b=c=1"
SrcTwoTargets ==
    SourceFile(<<"a", ".", "b", "=", "c", "=", "1">>, TRUE,
               <<Assign(<<Attribute(<<"b">>), Name(<<"c">>)>>, Other("Num"))>>)

\* "a.b=1;__all__=['t']"
SrcAttrTarget ==
    SourceFile(<<"a", ".", "b", "=", "1", ";">> \o sAll \o <<"=", "[", "'", "t", "'", "]">>, TRUE,
               <<Assign(<<Attribute(<<"b">>)>>, Other("Num")),
                 Assign(<<Name(sAll)>>, List(<<Str(<<"t">>)>>))>>)

\* "__all__=g()"
SrcAllCall == SourceFile(sAll \o <<"=", "g", "(", ")">>, TRUE,
                         <<Assign(<<Name(sAll)>>, Other("Call"))>>)

\* "__all__=[t]"
SrcAllNames == SourceFile(sAll \o <<"=", "[", "t", "]">>, TRUE,
                          <<Assign(<<Name(sAll)>>, List(<<Name(<<"t">>)>>))>>)

\* "t=("
SrcSyntaxError == SourceFile(<<"t", "=", "(">>, FALSE, <<>>)

InitFiles == {SrcDefinesT, SrcAllOther, SrcAllT, SrcTwoTargets, SrcAttrTarget,
              SrcAllCall, SrcAllNames, SrcSyntaxError, Unreadable}

-----------------------------------------------------------------------------
(* _in_public_interface *)

Bool(b) == [kind |-> "bool", b |-> b, n |-> 0]

Int_(n) == [kind |-> "int", b |-> FALSE, n |-> n]

Raise == [kind |-> "raise", b |-> FALSE, n |-> 0]

\* the truth value of a returned object
IsTrue(v) == IF v.kind = "bool" THEN v.b ELSE v.kind = "int" /\ Truthy(v.n)

\* open(init_path, 'r').read(): the file's record, or the IOError
CanRead(path) == path \in files /\ (path = InitPath => init_file.readable)

\* the loop of lines 177-179 over node.value.elts
RECURSIVE ScanElts(_, _)
ScanElts(elts, unknown) ==
    IF elts = <<>> THEN "none"
    ELSE IF elts[1].kind # "Str" THEN "raise"
    ELSE IF elts[1].s = unknown THEN "true"
    ELSE ScanElts(Tail(elts), unknown)

\* lines 171-179 for one top-level node
ScanNode(node, unknown) ==
    IF node.kind = "Assign" /\ Len(node.targets) = 1
    THEN IF node.targets[1].kind # "Name" THEN "raise"
         ELSE IF node.targets[1].id = sAll
              THEN IF node.value.kind # "List" THEN "raise"
                   ELSE ScanElts(node.value.elts, unknown)
              ELSE "none"
    ELSE "none"

\* the loop of line 169 over top_node.body
RECURSIVE ScanBody(_, _)
ScanBody(nodes, unknown) ==
    IF nodes = <<>> THEN "none"
    ELSE LET r == ScanNode(nodes[1], unknown)
         IN  IF r = "none" THEN ScanBody(Tail(nodes), unknown) ELSE r

\* in_public_interface with the test of line 161 after the parse of line 165
in_public_interface_ParseFirst(package_path, unknown) ==
    LET init_path == Join(package_path, sInit \o sPy)
    IN  IF ~CanRead(init_path) THEN Bool(FALSE)
        ELSE IF ~init_file.parses THEN Bool(FALSE)
        ELSE IF unknown.isNone THEN Bool(TRUE)
        ELSE LET r == ScanBody(init_file.body, unknown.s)
             IN  IF r = "true" THEN Bool(TRUE)
                 ELSE IF r = "raise" THEN Raise
                 ELSE Int_(Find(init_file.text, unknown.s))

in_public_interface(package_path, unknown) ==
    LET init_path == Join(package_path, sInit \o sPy)
    IN  IF ~CanRead(init_path) THEN Bool(FALSE)
        ELSE IF unknown.isNone THEN Bool(TRUE)
        ELSE IF ~init_file.parses THEN Bool(FALSE)
        ELSE LET r == ScanBody(init_file.body, unknown.s)
             IN  IF r = "true" THEN Bool(TRUE)
                 ELSE IF r = "raise" THEN Raise
                 ELSE Int_(Find(init_file.text, unknown.s))

-----------------------------------------------------------------------------
(* Custom inference rules: the plug-ins the resolver is configured with *)

NoList == [isNone |-> TRUE, s |-> <<>>]

SomeList(l) == [isNone |-> FALSE, s |-> l]

\* inference_rule.holds(project_root, base, unknown) -> (new_packages, new_modules)
holds(rule, root, base, unknown) ==
    IF rule = "numpy" /\ base = <<"n">>
    THEN <<SomeList(<<sNumpy>>), NoList>>
    ELSE IF rule = "both" /\ base = <<"n">>
    THEN <<SomeList(<<<<"p">>>>), SomeList(<<<<"n", ".", "x">>>>)>>
    ELSE <<NoList, NoList>>

RuleConfigs == {<<>>, <<"decline", "numpy">>,
                <<"numpy", "both">>, <<"both", "numpy">>}

\* line 84: the rule holds
RuleMatches(r) == ~r[1].isNone \/ ~r[2].isNone

\* FirstMatch without the break of line 86: the loop runs on to the last match
FirstMatch_NoBreak(base, unknown) ==
    LET hit == {k \in 1..Len(custom_rules) :
                    RuleMatches(holds(custom_rules[k], project_root, base, unknown))}
    IN  IF hit = {} THEN 0 ELSE CHOOSE k \in hit : \A j \in hit : k >= j

\* the position of the rule at which the loop of line 74 breaks, 0 if it runs out
FirstMatch(base, unknown) ==
    LET hit == {k \in 1..Len(custom_rules) :
                    RuleMatches(holds(custom_rules[k], project_root, base, unknown))}
    IN  IF hit = {} THEN 0 ELSE CHOOSE k \in hit : \A j \in hit : k <= j

\* the invocations the loop of line 74 makes for one pair
Invocations(base, unknown) ==
    LET fm == FirstMatch(base, unknown)
        n  == IF fm = 0 THEN Len(custom_rules) ELSE fm
    IN  [k \in 1..n |-> <<custom_rules[k], project_root, base, unknown>>]

-----------------------------------------------------------------------------
(* infer_import_type: the conditions of the decision chain, lines 65-133 *)

base == all_imports[idx][1]

unknown == all_imports[idx][2]

InLoop == pc = "loop" /\ idx <= Len(all_imports)

\* line 94
module_path == Join(project_root, Replace(base, ".", "/") \o sPy)

\* line 100
dotted_path == base \o <<".">> \o Format(unknown)

\* line 104
unknown_is_package ==
    LET package_path == Join(project_root, Replace(dotted_path, ".", "/"))
    IN  IsDir(package_path) /\ contains_python_file(package_path)

\* line 105
unknown_is_module == IsFile(Join(project_root, Replace(dotted_path, ".", "/") \o sPy))

\* line 119
base_package_path == Join(project_root, Replace(base, ".", "/"))

\* line 126
local_module_path == Join(script_dir, Replace(base, ".", "/") \o sPy)

\* line 128
relative_module ==
    LET rel == Replace(RelPath(local_module_path, project_root), "/", ".")
    IN  SubSeq(rel, 1, Len(rel) - 3)

\* lines 67-90 passed: not installed and no custom rule matched
PastCustomRules ==
    /\ InLoop
    /\ ~is_installed(base, unknown, contains_pre_installed_packages)
    /\ FirstMatch(base, unknown) = 0

\* lines 95-115 passed
PastUnknownChecks ==
    /\ PastCustomRules
    /\ ~Exists(module_path)
    /\ ~unknown_is_package
    /\ ~unknown_is_module

\* line 120 evaluated to false without raising
NotPublic ==
    ~IsDir(base_package_path)
        \/ LET v == in_public_interface(base_package_path, unknown)
           IN  v.kind # "raise" /\ ~IsTrue(v)

Context == <<script_dir, contains_pre_installed_packages, custom_rules, files, init_file>>

Continue(newPackages, newModules) ==
    /\ packages' = packages \o newPackages
    /\ modules' = modules \o newModules
    /\ idx' = idx + 1
    /\ calls' = calls \o Invocations(base, unknown)
    /\ UNCHANGED <<pc, all_imports, result, Context, extractorVars>>

-----------------------------------------------------------------------------
(* infer_import_type: one action per way through the loop body *)

\* lines 67-68
PreInstalled ==
    /\ InLoop
    /\ is_installed(base, unknown, contains_pre_installed_packages)
    /\ idx' = idx + 1
    /\ UNCHANGED <<pc, all_imports, packages, modules, result, calls, Context, extractorVars>>

\* lines 72-90
CustomRule ==
    /\ InLoop
    /\ ~is_installed(base, unknown, contains_pre_installed_packages)
    /\ FirstMatch(base, unknown) # 0
    /\ LET r == holds(custom_rules[FirstMatch(base, unknown)], project_root, base, unknown)
       IN  Continue(r[1].s, r[2].s)

\* lines 94-97
BaseIsModule ==
    /\ PastCustomRules
    /\ Exists(module_path)
    /\ Continue(<<>>, <<base>>)

\* lines 107-111
UnknownIsPackage ==
    /\ PastCustomRules
    /\ ~Exists(module_path)
    /\ unknown_is_package
    /\ Continue(<<>>, <<dotted_path \o <<".">> \o sInit>>)

\* UnknownIsModule with the test of line 113 ahead of the test of line 107
UnknownIsModule_BeforePackage ==
    /\ PastCustomRules
    /\ ~Exists(module_path)
    /\ unknown_is_module
    /\ Continue(<<>>, <<dotted_path>>)

\* lines 113-115
UnknownIsModule ==
    /\ PastCustomRules
    /\ ~Exists(module_path)
    /\ ~unknown_is_package
    /\ unknown_is_module
    /\ Continue(<<>>, <<dotted_path>>)

\* lines 119-122
PublicInterface ==
    /\ PastUnknownChecks
    /\ IsDir(base_package_path)
    /\ IsTrue(in_public_interface(base_package_path, unknown))
    /\ Continue(<<>>, <<base \o <<".">> \o sInit>>)

\* line 120, when _in_public_interface raises AttributeError (lines 174, 177, 178)
PublicInterfaceRaises ==
    /\ PastUnknownChecks
    /\ IsDir(base_package_path)
    /\ in_public_interface(base_package_path, unknown).kind = "raise"
    /\ pc' = "raised"
    /\ calls' = calls \o Invocations(base, unknown)
    /\ UNCHANGED <<all_imports, idx, packages, modules, result, Context, extractorVars>>

\* lines 125-130
LocalToScriptDir ==
    /\ PastUnknownChecks
    /\ NotPublic
    /\ Exists(local_module_path)
    /\ Continue(<<>>, <<relative_module>>)

\* line 133
FallbackPackage ==
    /\ PastUnknownChecks
    /\ NotPublic
    /\ ~Exists(local_module_path)
    /\ Continue(<<base>>, <<>>)

ToSet(l) == {l[k] : k \in 1..Len(l)}

\* line 135
Return ==
    /\ pc = "loop"
    /\ idx > Len(all_imports)
    /\ pc' = "done"
    /\ result' = <<ToSet(packages), ToSet(modules)>>
    /\ UNCHANGED <<all_imports, idx, packages, modules, calls, Context, extractorVars>>

RECURSIVE SeqsUpTo(_, _)
SeqsUpTo(S, n) ==
    IF n = 0 THEN {<<>>}
    ELSE LET shorter == SeqsUpTo(S, n - 1)
         IN  shorter \cup {Append(q, x) : q \in shorter, x \in S}

Layouts(sd) == {fs \in SUBSET CandidateFiles(sd) : Cardinality(fs) <= MaxFiles}

ExtractorIdle ==
    /\ gpc = "done"
    /\ body = <<>>
    /\ gidx = 1
    /\ gpackages = <<>>
    /\ from_imports = <<>>

Init ==
    /\ pc = "loop"
    /\ all_imports \in SeqsUpTo(Pairs, MaxImports)
    /\ idx = 1
    /\ packages = <<>>
    /\ modules = <<>>
    /\ result = <<{}, {}>>
    /\ calls = <<>>
    /\ script_dir \in ScriptDirs
    /\ contains_pre_installed_packages \in BOOLEAN
    /\ custom_rules \in RuleConfigs
    /\ files \in Layouts(script_dir)
    /\ init_file \in IF InitPath \in files THEN InitFiles ELSE {Unreadable}
    /\ ExtractorIdle

Next ==
    \/ PreInstalled
    \/ CustomRule
    \/ BaseIsModule
    \/ UnknownIsPackage
    \/ UnknownIsModule
    \/ PublicInterface
    \/ PublicInterfaceRaises
    \/ LocalToScriptDir
    \/ FallbackPackage
    \/ Return

Spec == Init /\ [][Next]_vars

-----------------------------------------------------------------------------
(* get_imports, lines 14-42 *)

\* ast nodes of a script: alias names are the imported names (name.name)
ImportFrom(module, names) ==
    [kind |-> "ImportFrom", module |-> module, names |-> names, body |-> <<>>]

Import(names) == [kind |-> "Import", module |-> None, names |-> names, body |-> <<>>]

Compound(kind, nested) == [kind |-> kind, module |-> None, names |-> <<>>, body |-> nested]

\* from x import y, z
StmtFromXYZ == ImportFrom(Some(<<"x">>), <<<<"y">>, <<"z">>>>)

\* from . import y
StmtFromDotY == ImportFrom(None, <<<<"y">>>>)

\* import a, b
StmtImportAB == Import(<<<<"a">>, <<"b">>>>)

\* def g(): import a
StmtDef == Compound("FunctionDef", <<Import(<<<<"a">>>>)>>)

\* try: from x import y
StmtTry == Compound("Try", <<ImportFrom(Some(<<"x">>), <<<<"y">>>>)>>)

\* x = 1
StmtAssign == Compound("Assign", <<>>)

Statements == {StmtFromXYZ, StmtFromDotY, StmtImportAB, StmtDef, StmtTry, StmtAssign}

node == body[gidx]

InBody == gpc = "loop" /\ gidx <= Len(body)

\* lines 31-36
VisitImportFrom ==
    /\ InBody
    /\ node.kind = "ImportFrom"
    /\ LET module == IF ~node.module.isNone /\ node.module.s # <<>>
                     THEN node.module.s ELSE sInit
       IN  from_imports' = from_imports \o
               [k \in 1..Len(node.names) |-> <<module, Some(node.names[k])>>]
    /\ gidx' = gidx + 1
    /\ UNCHANGED <<gpc, body, gpackages, resolverVars>>

\* lines 38-40
VisitImport ==
    /\ InBody
    /\ node.kind = "Import"
    /\ gpackages' = gpackages \o [k \in 1..Len(node.names) |-> <<node.names[k], None>>]
    /\ gidx' = gidx + 1
    /\ UNCHANGED <<gpc, body, from_imports, resolverVars>>

RECURSIVE NestedImports(_)
NestedImports(nodes) ==
    IF nodes = <<>> THEN <<>>
    ELSE (IF nodes[1].kind = "Import"
          THEN [k \in 1..Len(nodes[1].names) |-> <<nodes[1].names[k], None>>]
          ELSE <<>>) \o NestedImports(Tail(nodes))

\* VisitOther walking into the statement's own body, as ast.walk would
VisitOther_Descend ==
    /\ InBody
    /\ node.kind \notin {"ImportFrom", "Import"}
    /\ gpackages' = gpackages \o NestedImports(node.body)
    /\ gidx' = gidx + 1
    /\ UNCHANGED <<gpc, body, from_imports, resolverVars>>

\* line 29, a node that is neither
VisitOther ==
    /\ InBody
    /\ node.kind \notin {"ImportFrom", "Import"}
    /\ gidx' = gidx + 1
    /\ UNCHANGED <<gpc, body, gpackages, from_imports, resolverVars>>

\* line 42
GetImportsReturn ==
    /\ gpc = "loop"
    /\ gidx > Len(body)
    /\ gpc' = "done"
    /\ UNCHANGED <<body, gidx, gpackages, from_imports, resolverVars>>

ResolverIdle ==
    /\ pc = "done"
    /\ all_imports = <<>>
    /\ idx = 1
    /\ packages = <<>>
    /\ modules = <<>>
    /\ result = <<{}, {}>>
    /\ calls = <<>>
    /\ script_dir = project_root
    /\ contains_pre_installed_packages = FALSE
    /\ custom_rules = <<>>
    /\ files = {}
    /\ init_file = Unreadable

ExtractInit ==
    /\ gpc = "loop"
    /\ body \in SeqsUpTo(Statements, MaxStmts)
    /\ gidx = 1
    /\ gpackages = <<>>
    /\ from_imports = <<>>
    /\ ResolverIdle

ExtractNext ==
    \/ VisitImportFrom
    \/ VisitImport
    \/ VisitOther
    \/ GetImportsReturn

ExtractSpec == ExtractInit /\ [][ExtractNext]_vars

-----------------------------------------------------------------------------
(* The conditions of the decision chain as the specification words them,   *)
(* for a pair (b, u) of the list                                           *)

AsPath(dotted) == Join(project_root, Replace(dotted, ".", "/"))

NotPreInstalled(b, u) == ~is_installed(b, u, contains_pre_installed_packages)

NoRuleMatches(b, u) ==
    \A k \in 1..Len(custom_rules) :
        ~RuleMatches(holds(custom_rules[k], project_root, b, u))

BaseIsLocalModuleFile(b) == Exists(AsPath(b) \o sPy)

AttributeIsPackage(b, u) ==
    /\ ~u.isNone
    /\ IsDir(AsPath(b \o <<".">> \o u.s))
    /\ contains_python_file(AsPath(b \o <<".">> \o u.s))

AttributeIsModuleFile(b, u) == ~u.isNone /\ IsFile(AsPath(b \o <<".">> \o u.s) \o sPy)

EntryPointReadable(b) ==
    LET entry == AsPath(b) \o <<"/">> \o sInit \o sPy
    IN  entry \in files /\ (entry = InitPath => init_file.readable)

\* some top-level single-target assignment gives __all__ a literal list of
\* strings with u among them
ExportListContains(u) ==
    \E k \in 1..Len(init_file.body) :
        LET st == init_file.body[k]
        IN  /\ st.kind = "Assign"
            /\ Len(st.targets) = 1
            /\ st.targets[1] = Name(sAll)
            /\ st.value.kind = "List"
            /\ \A e \in 1..Len(st.value.elts) : st.value.elts[e].kind = "Str"
            /\ \E e \in 1..Len(st.value.elts) : st.value.elts[e].s = u

ReportedPublic(b, u) ==
    IsDir(AsPath(b)) /\ IsTrue(in_public_interface(AsPath(b), u))

BaseIsLocalToScriptDir(b) == Exists(Join(script_dir, Replace(b, ".", "/") \o sPy))

InitModule(b) == b \o <<".">> \o sInit

AddsNothing == packages' = packages /\ modules' = modules

AddsModule(m) == packages' = packages /\ modules' = Append(modules, m)

AddsPackage(p) == packages' = Append(packages, p) /\ modules' = modules

-----------------------------------------------------------------------------
(* C9: for every readable entry-point file _in_public_interface returns a  *)
(* value and never raises, so no exception leaves the classification of a  *)
(* pair.                                                                   *)
C9_NoExceptionLeavesAPair == pc # "raised"

(* C10: for a plain import (base, absent) the output is one of module      *)
(* base, module base.__init__, the script-directory-relative module or     *)
(* package base; steps 4 and 5 never apply and nothing below <root>/<base>/*)
(* other than __init__.py makes another module name appear.                *)
C10_PlainImportDependsOnBaseOnly ==
    [][(InLoop /\ unknown.isNone /\ NotPreInstalled(base, unknown)
            /\ NoRuleMatches(base, unknown))
        => \/ AddsModule(base)
           \/ AddsModule(InitModule(base))
           \/ AddsModule(relative_module)
           \/ AddsPackage(base)]_vars

(* C5: when the entry-point file is readable and parses, the attribute is  *)
(* not absent and no declared export list contains it, the checker's       *)
(* fallback is truthy, so every such pair that reaches step 6 is           *)
(* classified as module base.__init__.                                     *)
C5_FallbackAlwaysTruthy ==
    \A k \in 1..(idx - 1) :
        LET b == all_imports[k][1]
            u == all_imports[k][2]
        IN  (/\ NotPreInstalled(b, u)
             /\ NoRuleMatches(b, u)
             /\ ~BaseIsLocalModuleFile(b)
             /\ ~AttributeIsPackage(b, u)
             /\ ~AttributeIsModuleFile(b, u)
             /\ IsDir(AsPath(b))
             /\ EntryPointReadable(b)
             /\ init_file.parses
             /\ ~u.isNone
             /\ ~ExportListContains(u.s))
            => InitModule(b) \in ToSet(modules)

(* C4: a from-import that is not pre-installed, matched by no rule, with   *)
(* no <root>/<base>.py and base.attribute neither package nor module, and  *)
(* whose package __init__.py is readable and assigns __all__ a literal     *)
(* sequence of strings containing the attribute, is classified as module   *)
(* base.__init__ and adds nothing to packages.                             *)
C4_DeclaredExportIsInitModule ==
    [][(/\ InLoop
        /\ ~unknown.isNone
        /\ NotPreInstalled(base, unknown)
        /\ NoRuleMatches(base, unknown)
        /\ ~BaseIsLocalModuleFile(base)
        /\ ~AttributeIsPackage(base, unknown)
        /\ ~AttributeIsModuleFile(base, unknown)
        /\ IsDir(AsPath(base))
        /\ EntryPointReadable(base)
        /\ ExportListContains(unknown.s))
        => AddsModule(InitModule(base))]_vars

(* C3: a pair that is not pre-installed and matched by no rule is added to *)
(* packages if and only if none of the conditions of steps 3-7 holds; the  *)
(* string added is exactly base and modules receives nothing, so no such   *)
(* pair is lost.                                                           *)
C3_PackageIffNoStepApplies ==
    [][(InLoop /\ NotPreInstalled(base, unknown) /\ NoRuleMatches(base, unknown))
        => /\ AddsPackage(base)
                <=> (/\ ~BaseIsLocalModuleFile(base)
                     /\ ~AttributeIsPackage(base, unknown)
                     /\ ~AttributeIsModuleFile(base, unknown)
                     /\ ~ReportedPublic(base, unknown)
                     /\ ~BaseIsLocalToScriptDir(base))
           /\ packages' # packages => AddsPackage(base)]_vars

(* C1: each pair processed ends in exactly one outcome: a pre-installed    *)
(* pair adds nothing; a pair matched by a custom rule adds only that       *)
(* rule's packages and modules; every other pair adds exactly one string   *)
(* to exactly one of packages or modules, never to both, never to neither. *)
C1_ExactlyOneOutcome ==
    [][InLoop
        => IF ~NotPreInstalled(base, unknown) THEN AddsNothing
           ELSE IF ~NoRuleMatches(base, unknown)
           THEN \E k \in 1..Len(custom_rules) :
                    LET r == holds(custom_rules[k], project_root, base, unknown)
                    IN  /\ RuleMatches(r)
                        /\ packages' = packages \o r[1].s
                        /\ modules' = modules \o r[2].s
           ELSE \/ \E m \in ToSet(modules') : AddsModule(m)
                \/ \E p \in ToSet(packages') : AddsPackage(p)]_vars

-----------------------------------------------------------------------------
(* C2: for a pair that is not pre-installed the custom rules are invoked   *)
(* in the configured order with (project_root, base, attribute); at the    *)
(* first rule that holds its results are added, no later rule is invoked   *)
(* and no filesystem step is applied, even when <root>/<base>.py exists.   *)
C2_CustomRulesPreempt ==
    [][(InLoop /\ NotPreInstalled(base, unknown))
        => LET n == Len(calls') - Len(calls)
               answer(k) == holds(custom_rules[k], project_root, base, unknown)
           IN  /\ n \in 0..Len(custom_rules)
               /\ calls' = calls \o [k \in 1..n |->
                                        <<custom_rules[k], project_root, base, unknown>>]
               /\ \A k \in 1..(n - 1) : ~RuleMatches(answer(k))
               /\ n < Len(custom_rules) => n >= 1 /\ RuleMatches(answer(n))
               /\ (n >= 1 /\ RuleMatches(answer(n)))
                    => /\ packages' = packages \o answer(n)[1].s
                       /\ modules' = modules \o answer(n)[2].s
                       /\ idx' = idx + 1]_vars

C2_Witness ==
    /\ pc = "loop"
    /\ idx = 2
    /\ all_imports[1] = <<<<"n">>, None>>
    /\ custom_rules = <<"numpy", "both">>
    /\ ~contains_pre_installed_packages
    /\ <<"/", "r", "/", "n", ".", "p", "y">> \in files
    /\ packages = <<sNumpy>>
    /\ modules = <<>>
    /\ calls = <<<<"numpy", project_root, <<"n">>, None>>>>

(* C6: _in_public_interface returns false whenever __init__.py cannot be   *)
(* read, also for an absent attribute, and for an absent attribute returns *)
(* true exactly when the file can be read, whatever its content.  A plain  *)
(* import whose base is a directory and that reaches step 6 is module      *)
(* base.__init__ exactly if __init__.py is readable and otherwise goes to  *)
(* step 7 or the package fallback, without an error.                       *)
C6_CheckerOnFile ==
    \A b \in {<<"f">>, <<"n">>} :
        /\ in_public_interface(AsPath(b), None) = Bool(EntryPointReadable(b))
        /\ ~EntryPointReadable(b)
                => in_public_interface(AsPath(b), Some(<<"t">>)) = Bool(FALSE)

C6_PlainImportOfDirectory ==
    (/\ InLoop
     /\ unknown.isNone
     /\ NotPreInstalled(base, unknown)
     /\ NoRuleMatches(base, unknown)
     /\ ~BaseIsLocalModuleFile(base)
     /\ ~unknown_is_package
     /\ ~unknown_is_module
     /\ IsDir(AsPath(base)))
    => /\ pc' = "loop"
       /\ IF EntryPointReadable(base) THEN AddsModule(InitModule(base))
          ELSE IF BaseIsLocalToScriptDir(base) THEN AddsModule(relative_module)
          ELSE AddsPackage(base)

RECURSIVE TopLevelFromImports(_)
TopLevelFromImports(stmts) ==
    IF stmts = <<>> THEN <<>>
    ELSE LET st == stmts[1]
             named == IF st.module.isNone THEN sInit ELSE st.module.s
         IN  (IF st.kind = "ImportFrom"
              THEN [k \in 1..Len(st.names) |-> <<named, Some(st.names[k])>>]
              ELSE <<>>) \o TopLevelFromImports(Tail(stmts))

RECURSIVE TopLevelPlainImports(_)
TopLevelPlainImports(stmts) ==
    IF stmts = <<>> THEN <<>>
    ELSE LET st == stmts[1]
         IN  (IF st.kind = "Import"
              THEN [k \in 1..Len(st.names) |-> <<st.names[k], None>>]
              ELSE <<>>) \o TopLevelPlainImports(Tail(stmts))

\* C7: what get_imports returns is exactly the tuples of the top-level
\* import statements, in source order
C7_TopLevelImportsOnly ==
    gpc = "done" => /\ from_imports = TopLevelFromImports(body)
                    /\ gpackages = TopLevelPlainImports(body)

C7_Witness ==
    /\ gpc = "done"
    /\ body = <<StmtDef, StmtFromDotY>>
    /\ from_imports = <<<<sInit, Some(<<"y">>)>>>>
    /\ gpackages = <<>>

====
